---- MODULE Spec2Model ----
(***************************************************************************)
(* Model of the user subsystem of cats-api: username derivation, the       *)
(* uniqueness resolver, the create_user transaction with its retry loop,   *)
(* authentication, and the JWT token lifecycle.                            *)
(*                                                                         *)
(* Strings are sequences of one-character strings, so that concatenation,  *)
(* lower-casing, decimal formatting and substring search are computed the  *)
(* way the Python code computes them.                                      *)
(***************************************************************************)
EXTENDS Integers, Sequences, FiniteSets, TLC

(***************************************************************************)
(* Bounds of the model.                                                    *)
(***************************************************************************)
\* number of create_user requests that may be in flight
NumReq == 4
\* number of create_user requests in the fairly scheduled runs
NumFairReq == 3
\* number of create_user requests in the runs with logins
NumAuthReq == 3
\* last instant of the clock, in ticks
MaxTime == 3
\* clock ticks per second (sub-second resolution of datetime.utcnow())
TicksPerSecond == 2
\* number of tokens that may be issued
MaxTokens == 2
\* creation requests made while every other operation is in use
NumAllReq == 2
\* longest name the normalizer is given exhaustively
MaxNameLen == 2

(***************************************************************************)
(* Program constants.                                                      *)
(***************************************************************************)
\* user_service.py:104  max_retries = 3
max_retries == 3
\* user_service.py:64   if counter <= 999
TierLimit == 999
\* user_service.py:74   if counter > 1000
HardLimit == 1000
\* security.py:30       timedelta(minutes=15)
DefaultExpireMinutes == 15
\* config.py:28         ACCESS_TOKEN_EXPIRE_MINUTES default
ACCESS_TOKEN_EXPIRE_MINUTES == 30

\* Python's None; an Optional value is None or Some(v)
None == [none |-> TRUE]
Some(v) == [value |-> v]

(***************************************************************************)
(* Strings.                                                                *)
(***************************************************************************)
LowerLetters ==
    {"a","b","c","d","e","f","g","h","i","j","k","l","m",
     "n","o","p","q","r","s","t","u","v","w","x","y","z"}

UpperToLower ==
    [c \in {"A","B","C","D","E","F","G","H","I","J","K","L","M",
            "N","O","P","Q","R","S","T","U","V","W","X","Y","Z"} |->
       CASE c = "A" -> "a" [] c = "B" -> "b" [] c = "C" -> "c" [] c = "D" -> "d"
         [] c = "E" -> "e" [] c = "F" -> "f" [] c = "G" -> "g" [] c = "H" -> "h"
         [] c = "I" -> "i" [] c = "J" -> "j" [] c = "K" -> "k" [] c = "L" -> "l"
         [] c = "M" -> "m" [] c = "N" -> "n" [] c = "O" -> "o" [] c = "P" -> "p"
         [] c = "Q" -> "q" [] c = "R" -> "r" [] c = "S" -> "s" [] c = "T" -> "t"
         [] c = "U" -> "u" [] c = "V" -> "v" [] c = "W" -> "w" [] c = "X" -> "x"
         [] c = "Y" -> "y" [] c = "Z" -> "z"]

\* str.lower(), character by character
LowerChar(c) == IF c \in DOMAIN UpperToLower THEN UpperToLower[c] ELSE c

Lower(s) == [i \in 1..Len(s) |-> LowerChar(s[i])]

\* Python's  needle in hay
Contains(hay, needle) ==
    \E i \in 0..(Len(hay) - Len(needle)) :
        \A j \in 1..Len(needle) : hay[i + j] = needle[j]

RECURSIVE FlattenSeq(_)
FlattenSeq(ss) == IF ss = << >> THEN << >> ELSE Head(ss) \o FlattenSeq(Tail(ss))

Digit(d) == CASE d = 0 -> "0" [] d = 1 -> "1" [] d = 2 -> "2" [] d = 3 -> "3"
              [] d = 4 -> "4" [] d = 5 -> "5" [] d = 6 -> "6" [] d = 7 -> "7"
              [] d = 8 -> "8" [] d = 9 -> "9"

\* str(n) for a natural number n
RECURSIVE ToStr(_)
ToStr(n) == IF n < 10 THEN << Digit(n) >>
            ELSE ToStr(n \div 10) \o << Digit(n % 10) >>

S_duplicate == <<"d", "u", "p", "l", "i", "c", "a", "t", "e">>
S_unique == <<"u", "n", "i", "q", "u", "e">>
S_user == <<"u", "s", "e", "r">>
S_userdot == <<"u", "s", "e", "r", ".">>
\* "Username '"
S_UsernameQ == <<"U", "s", "e", "r", "n", "a", "m", "e", " ", "'">>
\* "' already exists"
S_QAlreadyExists ==
    <<"'", " ", "a", "l", "r", "e", "a", "d", "y", " ", "e", "x", "i", "s", "t", "s">>
\* "Error creating user: "
S_ErrorCreating ==
    <<"E", "r", "r", "o", "r", " ", "c", "r", "e", "a", "t", "i", "n", "g", " ",
      "u", "s", "e", "r", ":", " ">>
\* "Failed to create unique username after "
S_FailedUnique ==
    <<"F", "a", "i", "l", "e", "d", " ", "t", "o", " ", "c", "r", "e", "a", "t", "e", " ",
      "u", "n", "i", "q", "u", "e", " ", "u", "s", "e", "r", "n", "a", "m", "e", " ",
      "a", "f", "t", "e", "r", " ">>
\* " attempts"
S_Attempts == <<" ", "a", "t", "t", "e", "m", "p", "t", "s">>
\* "Invalid username or password"
S_InvalidLogin ==
    <<"I", "n", "v", "a", "l", "i", "d", " ", "u", "s", "e", "r", "n", "a", "m", "e", " ",
      "o", "r", " ", "p", "a", "s", "s", "w", "o", "r", "d">>

(***************************************************************************)
(* Time.  The clock counts ticks; time.time() and utctimetuple() truncate   *)
(* to whole seconds.                                                       *)
(***************************************************************************)
\* a clock read that always returns the epoch
Seconds_Frozen(t) == 0

Seconds(t) == t \div TicksPerSecond

(***************************************************************************)
(* Identity normalizer: UserService._generate_username.                    *)
(***************************************************************************)
\* unicodedata.normalize('NFD', .) of one character: a precomposed accented
\* letter becomes its base letter followed by a combining mark
Decompose(c) ==
    CASE c = "E_ACUTE" -> <<"E", "COMBINING_ACUTE">>
      [] c = "e_acute" -> <<"e", "COMBINING_ACUTE">>
      [] c = "i_acute" -> <<"i", "COMBINING_ACUTE">>
      [] c = "n_tilde" -> <<"n", "COMBINING_TILDE">>
      [] OTHER -> << c >>

NFD(s) == FlattenSeq([i \in 1..Len(s) |-> Decompose(s[i])])

\* unicodedata.category(c) == 'Mn'
IsMn(c) == c \in {"COMBINING_ACUTE", "COMBINING_TILDE"}

IsAsciiLetter(c) == c \in LowerLetters \/ c \in DOMAIN UpperToLower

\* cleaning that forgets str.lower() before the regex
CleanName_NoLower(s) ==
    SelectSeq(SelectSeq(NFD(s), LAMBDA c : ~IsMn(c)), IsAsciiLetter)

\* lines 35-37 / 39-41: normalize, drop combining marks, lower, drop non-letters
CleanName(s) ==
    LET noMarks == SelectSeq(NFD(s), LAMBDA c : ~IsMn(c))
    IN  SelectSeq(Lower(noMarks), IsAsciiLetter)

\* str.split(): the whitespace-delimited words of s
IsSpace(c) == c \in {" ", "\t"}

RECURSIVE SplitWords(_, _, _)
SplitWords(s, cur, acc) ==
    IF s = << >>
    THEN IF cur = << >> THEN acc ELSE Append(acc, cur)
    ELSE IF IsSpace(Head(s))
         THEN SplitWords(Tail(s), << >>, IF cur = << >> THEN acc ELSE Append(acc, cur))
         ELSE SplitWords(Tail(s), Append(cur, Head(s)), acc)

Split(s) == SplitWords(s, << >>, << >>)

\* a normalizer that splits the last name before cleaning it and keeps the
\* first word
generate_username_FirstWord(first_name, last_name, t) ==
    LET first_clean == CleanName(first_name)
        last_words  == Split(last_name)
        last_clean  == IF last_words # << >> THEN CleanName(last_words[1]) ELSE << >>
    IN  IF first_clean = << >> \/ last_clean = << >>
        THEN S_user \o ToStr(Seconds(t))
        ELSE first_clean \o <<".">> \o last_clean

\* the normalizer without its edge case for empty segments (lines 52-54)
generate_username_NoFallback(first_name, last_name, t) ==
    CleanName(first_name) \o <<".">> \o CleanName(last_name)

\* UserService._generate_username(first_name, last_name) called at instant t
generate_username(first_name, last_name, t) ==
    LET first_clean == CleanName(first_name)
        last_words  == Split(CleanName(last_name))
        last_clean  == IF last_words # << >> THEN last_words[1] ELSE CleanName(last_name)
    IN  IF first_clean = << >> \/ last_clean = << >>
        THEN S_user \o ToStr(Seconds(t))
        ELSE first_clean \o <<".">> \o last_clean


(***************************************************************************)
(* State.                                                                  *)
(***************************************************************************)
VARIABLES
    store,     \* the persisted accounts, in insertion order (collection users)
    req,       \* per create_user request: its position and local variables
    now,       \* the clock, in ticks
    tokens,    \* the tokens issued so far, with their issue data
    verified,  \* the last verify_token call: token, instant, result
    logins,    \* the login calls observed so far
    obs        \* the last call of a read-only operation, with its result

vars == <<store, req, now, tokens, verified, logins, obs>>

Requests == 1..NumReq

\* the (first_name, last_name) pairs clients submit, after UserCreate has
\* validated and stripped them
Names ==
    { << <<"E_ACUTE", "l">>, <<"O", " ", "B">> >>,
      << <<"U", "n", "i", "q", "u", "e">>, <<"L", "i">> >>,
      << <<"1">>, <<"B", "o">> >> }

Passwords == {"secret1", "secret2"}

(***************************************************************************)
(* Password hashing (bcrypt, opaque): a hash records the salt it was made   *)
(* with and verifies exactly the plaintext it was made from.               *)
(***************************************************************************)
get_password_hash(password, salt) == [salt |-> salt, plain |-> password]

\* a verifier that accepts every password
verify_password_Always(plain_password, hashed_password) == TRUE

verify_password(plain_password, hashed_password) ==
    hashed_password.plain = plain_password

(***************************************************************************)
(* Repository (MongoUserRepository over a collection with a unique         *)
(* username index; MockUserRepository behaves the same).                   *)
(***************************************************************************)
username_exists(st, username) ==
    Cardinality({i \in 1..Len(st) : st[i].username = username}) > 0

get_user_by_username(st, username) ==
    IF \E i \in 1..Len(st) : st[i].username = username
    THEN st[CHOOSE i \in 1..Len(st) :
               /\ st[i].username = username
               /\ \A j \in 1..(i - 1) : st[j].username # username]
    ELSE None

\* an index that also rejects the first numbered name of a taken base
InsertRejects_Neighbour(st, user) ==
    \E i \in 1..Len(st) :
        \/ st[i].username = user.username
        \/ st[i].username \o <<"1">> = user.username

\* a collection without the unique index accepts every insert
InsertRejects_NoIndex(st, user) == FALSE

\* the unique index on username: does insert_one raise DuplicateKeyError
InsertRejects(st, user) == username_exists(st, user.username)

\* a repository that saves over the account of the same person
repo_create_user_Upsert(st, user) ==
    LET same    == {i \in 1..Len(st) : /\ st[i].first_name = user.first_name
                                        /\ st[i].last_name = user.last_name}
        created == [user EXCEPT !.id = Some(Len(st) + 1)]
    IN  IF same = {}
        THEN [ok |-> TRUE, user |-> created, store |-> Append(st, created)]
        ELSE [ok |-> TRUE, user |-> created,
              store |-> [i \in 1..Len(st) |-> IF i \in same THEN created ELSE st[i]]]

\* repository create_user: the persisted user and the new collection, or the
\* ValueError the repository raises
repo_create_user(st, user) ==
    IF InsertRejects(st, user)
    THEN [ok |-> FALSE,
          error |-> S_UsernameQ \o user.username \o S_QAlreadyExists,
          store |-> st]
    ELSE LET created == [user EXCEPT !.id = Some(Len(st) + 1)]
         IN  [ok |-> TRUE, user |-> created, store |-> Append(st, created)]

\* what insert_one can raise besides a duplicate username: a DuplicateKeyError
\* on another key, or any other driver exception (the store is unreachable)
Faults == {"duplicate_other_key", "unreachable"}

\* "Duplicate data error occurred"
S_DuplicateData ==
    <<"D", "u", "p", "l", "i", "c", "a", "t", "e", " ", "d", "a", "t", "a", " ",
      "e", "r", "r", "o", "r", " ", "o", "c", "c", "u", "r", "r", "e", "d">>
\* "Database error: "
S_DatabaseError ==
    <<"D", "a", "t", "a", "b", "a", "s", "e", " ", "e", "r", "r", "o", "r", ":", " ">>
\* str(e) of the driver's exception: "connection failed"
S_ConnectionFailed ==
    <<"c", "o", "n", "n", "e", "c", "t", "i", "o", "n", " ", "f", "a", "i", "l", "e", "d">>

\* the ValueError repository create_user raises when insert_one raises fault
FaultMessage(fault) ==
    IF fault = "duplicate_other_key"
    THEN S_DuplicateData
    ELSE S_DatabaseError \o S_ConnectionFailed

\* repository create_user when insert_one raises fault (lines 23-29)
repo_create_user_failing(st, user, fault) ==
    [ok |-> FALSE, error |-> FaultMessage(fault), store |-> st]

(***************************************************************************)
(* Uniqueness resolver: UserService._get_unique_username, one loop          *)
(* iteration (one awaited username_exists call) per step.                  *)
(***************************************************************************)
\* hashlib.md5(text).hexdigest()[:n], kept symbolic
Md5Prefix(text, n) == << [md5 |-> text, hexlen |-> n] >>

\* the loop numbers its candidates from 2 instead of 1
ResolverAdvance_OffByOne(base_username, counter, t) ==
    [username |-> base_username \o ToStr(counter + 1),
     counter |-> counter + 1, done |-> counter + 1 > HardLimit]

\* the loop forgets to increment its counter
ResolverAdvance_NoIncrement(base_username, counter, t) ==
    [username |-> base_username \o ToStr(counter),
     counter |-> counter, done |-> FALSE]

\* the safety check fires one pass too late
ResolverAdvance_LateCeiling(base_username, counter, t) ==
    LET candidate ==
            IF counter <= TierLimit
            THEN base_username \o ToStr(counter)
            ELSE base_username \o <<".">>
                 \o Md5Prefix(base_username \o ToStr(Seconds(t)), 6)
        next == counter + 1
    IN  IF next > HardLimit + 1
        THEN [username |-> S_userdot
                  \o Md5Prefix(base_username \o ToStr(Seconds(t)) \o ToStr(next), 8),
              counter |-> next, done |-> TRUE]
        ELSE [username |-> candidate, counter |-> next, done |-> FALSE]

\* the state of the loop after the condition answered "exists"
ResolverAdvance(base_username, counter, t) ==
    LET candidate ==
            IF counter <= TierLimit
            THEN base_username \o ToStr(counter)
            ELSE base_username \o <<".">>
                 \o Md5Prefix(base_username \o ToStr(Seconds(t)), 6)
        next == counter + 1
    IN  IF next > HardLimit
        THEN [username |-> S_userdot
                  \o Md5Prefix(base_username \o ToStr(Seconds(t)) \o ToStr(next), 8),
              counter |-> next, done |-> TRUE]
        ELSE [username |-> candidate, counter |-> next, done |-> FALSE]

(***************************************************************************)
(* Account creator: UserService.create_user.                               *)
(***************************************************************************)
IdleReq ==
    [pc |-> "idle", first_name |-> << >>, last_name |-> << >>, password |-> "",
     base |-> << >>, username |-> << >>, counter |-> 0, attempt |-> 0,
     user |-> None, result |-> None, inserts |-> 0, resolves |-> 0,
     faulted |-> "none", seen |-> 0]

\* a response that hands out the stored model as it is
UserResponse_Whole(user) == user

UserResponse(user) ==
    [id |-> user.id, first_name |-> user.first_name, last_name |-> user.last_name,
     username |-> user.username, email |-> user.email,
     created_at |-> user.created_at, updated_at |-> user.updated_at]

\* line 110: "duplicate" in str(e).lower() or "unique" in str(e).lower()
IsDuplicateMessage(msg) ==
    Contains(Lower(msg), S_duplicate) \/ Contains(Lower(msg), S_unique)

\* the retry guard lets the last attempt retry too
RetryAllowed_OneMore(attempt) == attempt < max_retries

\* line 111: attempt < max_retries - 1
RetryAllowed(attempt) == attempt < max_retries - 1

\* "Failed to create user after maximum retries"
S_FailedMax ==
    <<"F", "a", "i", "l", "e", "d", " ", "t", "o", " ", "c", "r", "e", "a", "t", "e", " ",
      "u", "s", "e", "r", " ", "a", "f", "t", "e", "r", " ",
      "m", "a", "x", "i", "m", "u", "m", " ", "r", "e", "t", "r", "i", "e", "s">>

\* line 105: for attempt in range(max_retries) has another iteration
LoopContinues(attempt) == attempt < max_retries

\* line 121 (the for-else), wrapped by line 134
MaxRetriesError == S_ErrorCreating \o S_FailedMax

\* the message names the loop index instead of the number of attempts
ExhaustedError_AttemptIndex ==
    S_ErrorCreating \o S_FailedUnique \o ToStr(max_retries - 1) \o S_Attempts

\* line 117, wrapped by line 134
ExhaustedError ==
    S_ErrorCreating \o S_FailedUnique \o ToStr(max_retries) \o S_Attempts

\* a draft that is built anew, with a fresh hash, for every attempt
DraftUser_Rebuilt(q, r, unique_username) ==
    [id |-> None, first_name |-> q.first_name, last_name |-> q.last_name,
     username |-> unique_username,
     password |-> get_password_hash(q.password, r + q.attempt * NumReq),
     email |-> None, created_at |-> now, updated_at |-> now]

\* the draft user after the resolver returned unique_username: built on the
\* first resolution (lines 90-101), its username replaced on a retry (line 114)
DraftUser(q, r, unique_username) ==
    IF q.user = None
    THEN [id |-> None, first_name |-> q.first_name, last_name |-> q.last_name,
          username |-> unique_username,
          password |-> get_password_hash(q.password, r),
          email |-> None, created_at |-> now, updated_at |-> now]
    ELSE [q.user EXCEPT !.username = unique_username]

\* the resolver returned unique_username to create_user (seen remembers how
\* many accounts the store held at the resolver's last existence check): the draft is built
\* or updated and the retry loop makes its next insert attempt, unless the
\* loop is exhausted (lines 120-121)
ResolverReturns(q, r, unique_username, counter) ==
    IF LoopContinues(q.attempt)
    THEN [q EXCEPT !.pc = "insert",
                   !.username = unique_username,
                   !.counter = counter,
                   !.user = DraftUser(q, r, unique_username),
                   !.seen = Len(store)]
    ELSE [q EXCEPT !.pc = "failed",
                   !.username = unique_username,
                   !.counter = counter,
                   !.result = [ok |-> FALSE, error |-> MaxRetriesError]]

\* a loop that returns its next candidate without asking for it
ResolverLoop_Unchecked(base_username, username, counter, exists, t) ==
    IF ~exists
    THEN [username |-> username, counter |-> counter, done |-> TRUE]
    ELSE [ResolverAdvance(base_username, counter, t) EXCEPT !.done = TRUE]

\* lines 63-80: one evaluation of the loop condition, answered exists, for
\* the loop state (username, counter) and, if it holds, one pass through the
\* loop body; done tells that the loop is left and username is returned
ResolverLoop(base_username, username, counter, exists, t) ==
    IF ~exists
    THEN [username |-> username, counter |-> counter, done |-> TRUE]
    ELSE ResolverAdvance(base_username, counter, t)

\* one awaited username_exists call by a request whose resolver state is q
ResolverIteration(q, r) ==
    LET step == ResolverLoop(q.base, q.username, q.counter,
                             username_exists(store, q.username), now)
    IN  IF step.done
        THEN ResolverReturns(q, r, step.username, step.counter)
        ELSE [q EXCEPT !.username = step.username,
                       !.counter = step.counter]

\* lines 86-87: a request arrives, derives its base and makes the first
\* existence check of its resolver (no store access happens before it)
Start(r, name, password) ==
    /\ req[r].pc = "idle"
    /\ \A q \in 1..(r - 1) : req[q].pc # "idle"
    /\ LET base == generate_username(name[1], name[2], now)
           q0   == [IdleReq EXCEPT !.pc = "resolve",
                                   !.first_name = name[1],
                                   !.last_name = name[2],
                                   !.password = password,
                                   !.base = base,
                                   !.username = base,
                                   !.counter = 1,
                                   !.resolves = 1]
       IN  req' = [req EXCEPT ![r] = ResolverIteration(q0, r)]
    /\ UNCHANGED <<store, now, tokens, verified, logins, obs>>

\* a resolver that reserves the name it returns by writing it to the store
ResolveStep_Reserving(r) ==
    /\ req[r].pc = "resolve"
    /\ LET q == ResolverIteration(req[r], r)
       IN  /\ req' = [req EXCEPT ![r] = q]
           /\ store' = IF q.pc = "insert"
                       THEN Append(store, [q.user EXCEPT !.id = Some(0)])
                       ELSE store
    /\ UNCHANGED <<now, tokens, verified, logins, obs>>

\* a later iteration of the resolver loop
ResolveStep(r) ==
    /\ req[r].pc = "resolve"
    /\ req' = [req EXCEPT ![r] = ResolverIteration(req[r], r)]
    /\ UNCHANGED <<store, now, tokens, verified, logins, obs>>

\* a service that reports an error for every insert, the successful ones
\* included
InsertOutcome_ErrorAfterWrite(q, res) ==
    [q EXCEPT !.pc = "failed",
              !.inserts = q.inserts + 1,
              !.result = [ok |-> FALSE, error |-> S_ErrorCreating]]

\* a retry that resumes the resolver where the previous invocation stopped
InsertOutcome_ResumesCounter(q, res) ==
    IF res.ok
    THEN [q EXCEPT !.pc = "done",
                   !.inserts = q.inserts + 1,
                   !.user = res.user,
                   !.result = [ok |-> TRUE, value |-> UserResponse(res.user)]]
    ELSE IF IsDuplicateMessage(res.error)
         THEN IF RetryAllowed(q.attempt)
              THEN [q EXCEPT !.pc = "resolve",
                             !.inserts = q.inserts + 1,
                             !.attempt = q.attempt + 1,
                             !.resolves = q.resolves + 1]
              ELSE [q EXCEPT !.pc = "failed",
                             !.inserts = q.inserts + 1,
                             !.result = [ok |-> FALSE, error |-> ExhaustedError]]
         ELSE [q EXCEPT !.pc = "failed",
                        !.inserts = q.inserts + 1,
                        !.result = [ok |-> FALSE,
                                    error |-> S_ErrorCreating \o res.error]]

\* lines 105-134: what the service does with the outcome res of one insert
\* attempt of the request whose state is q
InsertOutcome(q, res) ==
    IF res.ok
    THEN [q EXCEPT !.pc = "done",
                   !.inserts = q.inserts + 1,
                   !.user = res.user,
                   !.result = [ok |-> TRUE, value |-> UserResponse(res.user)]]
    ELSE IF IsDuplicateMessage(res.error)
         THEN IF RetryAllowed(q.attempt)
              THEN [q EXCEPT !.pc = "resolve",
                             !.inserts = q.inserts + 1,
                             !.attempt = q.attempt + 1,
                             !.username = q.base,
                             !.counter = 1,
                             !.resolves = q.resolves + 1]
              ELSE [q EXCEPT !.pc = "failed",
                             !.inserts = q.inserts + 1,
                             !.result = [ok |-> FALSE, error |-> ExhaustedError]]
         ELSE [q EXCEPT !.pc = "failed",
                        !.inserts = q.inserts + 1,
                        !.result = [ok |-> FALSE,
                                    error |-> S_ErrorCreating \o res.error]]

\* one insert attempt against a working store
Insert(r) ==
    /\ req[r].pc = "insert"
    /\ LET res == repo_create_user(store, req[r].user)
       IN  /\ store' = IF res.ok THEN res.store ELSE store
           /\ req' = [req EXCEPT ![r] = InsertOutcome(req[r], res)]
    /\ UNCHANGED <<now, tokens, verified, logins, obs>>

\* one insert attempt on which the driver raises fault; the request
\* remembers the first fault it met
InsertFault(r, fault) ==
    /\ req[r].pc = "insert"
    /\ LET res == repo_create_user_failing(store, req[r].user, fault)
           q   == InsertOutcome(req[r], res)
       IN  req' = [req EXCEPT ![r] =
                     [q EXCEPT !.faulted = IF req[r].faulted = "none"
                                           THEN fault ELSE req[r].faulted]]
    /\ UNCHANGED <<store, now, tokens, verified, logins, obs>>

\* the clock advances
Tick ==
    /\ now < MaxTime
    /\ now' = now + 1
    /\ UNCHANGED <<store, req, tokens, verified, logins, obs>>

(***************************************************************************)
(* Credential verifier: UserService.authenticate_user, and the login        *)
(* endpoints of user_controller.                                           *)
(***************************************************************************)
\* a verifier that locks a username out once a wrong secret was tried for it
authenticate_user_Lockout(st, username, password) ==
    LET user == get_user_by_username(st, username)
    IN  IF user = None \/ (logins.wrong # None /\ logins.wrong.username = username)
        THEN None
        ELSE IF ~verify_password(password, user.password)
             THEN None
             ELSE UserResponse(user)

authenticate_user(st, username, password) ==
    LET user == get_user_by_username(st, username)
    IN  IF user = None
        THEN None
        ELSE IF ~verify_password(password, user.password)
             THEN None
             ELSE UserResponse(user)

(***************************************************************************)
(* Token service: security.py over python-jose.                            *)
(***************************************************************************)
\* settings.SECRET_KEY
SECRET_KEY == "your-secret-key-here"

MinuteTicks == 60 * TicksPerSecond

\* jwt.encode: a datetime exp claim becomes whole seconds
\* (timegm(exp.utctimetuple())); the token carries claims and signature
jwt_encode(claims, key) ==
    [payload |-> [claims EXCEPT !.exp = Seconds(claims.exp)], sig |-> key]

\* jose's expiry validation at instant t: the token is rejected when
\* exp < now, now being timegm(datetime.utcnow().utctimetuple())
ExpiredAt(exp, t) == exp < Seconds(t)

\* jws.verify: the token has the three-segment structure and its signature
\* was made with key
SignatureOk(token, key) == "sig" \in DOMAIN token /\ token.sig = key

\* jwt.decode at instant t: the payload, or JWTError
jwt_decode(token, key, t) ==
    IF ~SignatureOk(token, key)
    THEN [error |-> TRUE]
    ELSE IF "exp" \in DOMAIN token.payload /\ ExpiredAt(token.payload.exp, t)
         THEN [error |-> TRUE]
         ELSE [error |-> FALSE, payload |-> token.payload]

\* create_access_token(data, expires_delta) called at instant t;
\* expires_delta is in ticks, and a zero (or absent) delta is falsy
create_access_token(data, expires_delta, t) ==
    LET expire == IF expires_delta # 0
                  THEN t + expires_delta
                  ELSE t + DefaultExpireMinutes * MinuteTicks
        to_encode == [k \in DOMAIN data \cup {"exp"} |->
                         IF k = "exp" THEN expire ELSE data[k]]
    IN  jwt_encode(to_encode, SECRET_KEY)

\* create_access_token_with_claims(username, additional_claims, expires_delta)
\* called at instant t: the additional claims are merged over {"sub": username}
\* (line 123), then "exp" is set (line 130)
create_access_token_with_claims(username, additional_claims, expires_delta, t) ==
    LET expire == IF expires_delta # 0
                  THEN t + expires_delta
                  ELSE t + ACCESS_TOKEN_EXPIRE_MINUTES * MinuteTicks
        to_encode == [k \in {"sub"} \cup DOMAIN additional_claims \cup {"exp"} |->
                         IF k = "exp" THEN expire
                         ELSE IF k \in DOMAIN additional_claims
                              THEN additional_claims[k]
                              ELSE username]
    IN  jwt_encode(to_encode, SECRET_KEY)

\* verify_token(token) called at instant t: None, or the subject
verify_token(token, t) ==
    LET d == jwt_decode(token, SECRET_KEY, t)
    IN  IF d.error
        THEN None
        ELSE IF "sub" \notin DOMAIN d.payload
             THEN None
             ELSE Some(d.payload.sub)

\* datetime.utcnow().timestamp() at instant t on a host whose local time is
\* utc_offset hours ahead of UTC: the naive UTC wall time is read as local time
NaiveUtcTimestamp(t, utc_offset) == t - utc_offset * 60 * MinuteTicks

\* is_token_valid(token) called at instant t on such a host
is_token_valid(token, t, utc_offset) ==
    LET d == jwt_decode(token, SECRET_KEY, t)
    IN  IF d.error
        THEN FALSE
        ELSE IF "exp" \notin DOMAIN d.payload
             THEN FALSE
             ELSE NaiveUtcTimestamp(t, utc_offset) < d.payload.exp * TicksPerSecond

\* UserService.get_all_users
svc_get_all_users(st) == [i \in 1..Len(st) |-> UserResponse(st[i])]

\* UserService.get_user_by_username
svc_get_user_by_username(st, username) ==
    LET user == get_user_by_username(st, username)
    IN  IF user = None THEN None ELSE UserResponse(user)

\* the 401 the login endpoints raise when authenticate_user returns None
LoginRejected == [status |-> 401, detail |-> S_InvalidLogin]

\* "User not found"
S_UserNotFound ==
    <<"U", "s", "e", "r", " ", "n", "o", "t", " ", "f", "o", "u", "n", "d">>

\* a login that answers 404 for a username it does not know
login_user_NotFound(st, username, password, t) ==
    IF ~username_exists(st, username)
    THEN [status |-> 404, detail |-> S_UserNotFound]
    ELSE IF authenticate_user(st, username, password) = None
         THEN LoginRejected
         ELSE [status |-> 200,
               access_token |-> create_access_token([sub |-> username],
                                   ACCESS_TOKEN_EXPIRE_MINUTES * MinuteTicks, t),
               token_type |-> "bearer",
               user |-> authenticate_user(st, username, password)]

\* a login that issues its token for the first name of the account
login_user_SubjectIsFirstName(st, username, password, t) ==
    LET user == authenticate_user(st, username, password)
    IN  IF user = None
        THEN LoginRejected
        ELSE [status |-> 200,
              access_token |-> create_access_token([sub |-> user.first_name],
                                  ACCESS_TOKEN_EXPIRE_MINUTES * MinuteTicks, t),
              token_type |-> "bearer",
              user |-> user]

\* login_user_get / login_user_post called at instant t
login_user(st, username, password, t) ==
    LET user == authenticate_user(st, username, password)
    IN  IF user = None
        THEN LoginRejected
        ELSE [status |-> 200,
              access_token |-> create_access_token([sub |-> user.username],
                                  ACCESS_TOKEN_EXPIRE_MINUTES * MinuteTicks, t),
              token_type |-> "bearer",
              user |-> user]

(***************************************************************************)
(* Clients of the login and token operations.                              *)
(***************************************************************************)
\* the names of the requests that race for one username
RaceNames == {n \in Names : CleanName(n[1]) # << >>}

\* usernames a client may try to log in with
LoginUsernames ==
    UNION { { generate_username(n[1], n[2], 0),
              generate_username(n[1], n[2], 0) \o <<"1">> } : n \in RaceNames }

\* subjects and lifetimes (in ticks) tokens are issued for
Subjects == { generate_username(n[1], n[2], 0) : n \in RaceNames }
TTLs == {0, 1, 3}

NoLogins == [unknown |-> None, wrong |-> None, ok |-> None]
NoVerify == [token |-> 0, at |-> 0, result |-> None]
NoObs == [op |-> "none"]

\* a client logs in; the observation is filed by what the store held for
\* the username at that moment
Login(username, password) ==
    /\ LET resp  == login_user(store, username, password, now)
           known == username_exists(store, username)
           seen  == [username |-> username, password |-> password,
                     service |-> authenticate_user(store, username, password),
                     response |-> resp,
                     rejected_before |-> /\ resp.status = 200
                                         /\ logins.wrong # None
                                         /\ logins.wrong.username = username]
       IN  logins' =
             IF resp.status = 200
             THEN [logins EXCEPT !.ok = seen]
             ELSE IF known
                  THEN [logins EXCEPT !.wrong = seen]
                  ELSE [logins EXCEPT !.unknown = seen]
    /\ UNCHANGED <<store, req, now, tokens, verified, obs>>

\* create_access_token(data={"sub": subject}, expires_delta=ttl)
Issue(subject, ttl) ==
    /\ Len(tokens) < MaxTokens
    /\ tokens' = Append(tokens,
                        [token |-> create_access_token([sub |-> subject], ttl, now),
                         subject |-> subject, issued_at |-> now, ttl |-> ttl])
    /\ UNCHANGED <<store, req, now, verified, logins, obs>>

\* verify_token on the i-th issued token
Verify(i) ==
    /\ i \in 1..Len(tokens)
    /\ verified' = [token |-> i, at |-> now,
                    result |-> verify_token(tokens[i].token, now)]
    /\ UNCHANGED <<store, req, now, tokens, logins, obs>>

\* maps of additional claims: none, a role, a subject, an expiry
ClaimMaps ==
    { << >>, [role |-> "admin"], [sub |-> <<"r", "o", "o", "t">>], [exp |-> 0] }

\* lifetimes (in ticks) tokens with claims are issued for: timedelta(0) and
\* a lifetime that ends within the run
ClaimTTLs == {0, 3}

\* create_access_token_with_claims(subject, claims, expires_delta=ttl)
IssueWithClaims(subject, claims, ttl) ==
    /\ Len(tokens) < MaxTokens
    /\ tokens' = Append(tokens,
                        [token |-> create_access_token_with_claims(subject, claims, ttl, now),
                         subject |-> subject, issued_at |-> now, ttl |-> ttl,
                         claims |-> claims])
    /\ UNCHANGED <<store, req, now, verified, logins, obs>>

\* a request arrives while no other request is in flight
StartSeq(r, name, password) ==
    /\ \A q \in Requests : req[q].pc \in {"idle", "done", "failed"}
    /\ Start(r, name, password)

\* GET /api/v1/user
ListUsers ==
    /\ obs' = [op |-> "get_all_users", result |-> svc_get_all_users(store)]
    /\ UNCHANGED <<store, req, now, tokens, verified, logins>>

\* GET /api/v1/auth/me for the subject of a verified token
FindUser(username) ==
    /\ obs' = [op |-> "get_user_by_username", username |-> username,
               result |-> svc_get_user_by_username(store, username)]
    /\ UNCHANGED <<store, req, now, tokens, verified, logins>>

\* characters of the names given to the normalizer: a lowercase and an
\* uppercase letter, an accented letter, whitespace and a digit
NameChars == {"a", "B", "e_acute", " ", "1"}

\* compound and accented names
SampleNames ==
    { <<"E_ACUTE", "l">>, <<"O", " ", "B">>, <<"d", "a", " ", "S", "i">>,
      <<"A", "n", " ", "M", "a">>, <<"1", " ", "B">> }

NameInputs == UNION {[1..k -> NameChars] : k \in 0..MaxNameLen} \cup SampleNames

\* a call of _generate_username
Derive(first_name, last_name) ==
    /\ obs' = [op |-> "generate_username",
               first_name |-> first_name, last_name |-> last_name,
               calls |-> << [at |-> now,
                             result |-> generate_username(first_name, last_name, now)] >>]
    /\ UNCHANGED <<store, req, now, tokens, verified, logins>>

\* a second call with the same two names
DeriveAgain ==
    /\ obs.op = "generate_username"
    /\ Len(obs.calls) = 1
    /\ obs' = [obs EXCEPT !.calls =
                  Append(@, [at |-> now,
                             result |-> generate_username(obs.first_name,
                                                          obs.last_name, now)])]
    /\ UNCHANGED <<store, req, now, tokens, verified, logins>>

\* correctly signed tokens without an expiry claim
ExpirylessTokens ==
    { [payload |-> [sub |-> subject], sig |-> SECRET_KEY] : subject \in Subjects }

\* the local time zones of the hosts the service runs on, in hours from UTC
UtcOffsets == {-1, 0, 1}

\* is_token_valid on the i-th issued token
CheckValid(i, utc_offset) ==
    /\ i \in 1..Len(tokens)
    /\ obs' = [op |-> "is_token_valid", token |-> tokens[i].token, at |-> now,
               utc_offset |-> utc_offset,
               result |-> is_token_valid(tokens[i].token, now, utc_offset)]
    /\ UNCHANGED <<store, req, now, tokens, verified, logins>>

\* is_token_valid on a token that was not issued by the service
CheckValidPresented(token, utc_offset) ==
    /\ obs' = [op |-> "is_token_valid", token |-> token, at |-> now,
               utc_offset |-> utc_offset,
               result |-> is_token_valid(token, now, utc_offset)]
    /\ UNCHANGED <<store, req, now, tokens, verified, logins>>

\* _get_unique_username(base_username) is called on a repository whose
\* answers are not constrained
ResolveBegin(base_username) ==
    /\ obs' = [op |-> "get_unique_username", base |-> base_username,
               username |-> base_username, counter |-> 1,
               checks |-> 0, positive |-> 0, last_checked |-> << >>,
               done |-> FALSE]
    /\ UNCHANGED <<store, req, now, tokens, verified, logins>>

\* the repository answers exists to the awaited username_exists call
ResolveProbe(exists) ==
    /\ obs.op = "get_unique_username"
    /\ ~obs.done
    /\ LET step == ResolverLoop(obs.base, obs.username, obs.counter, exists, now)
       IN  obs' = [obs EXCEPT !.username = step.username,
                              !.counter = step.counter,
                              !.checks = @ + 1,
                              !.positive = IF exists THEN @ + 1 ELSE @,
                              !.last_checked = obs.username,
                              !.done = step.done]
    /\ UNCHANGED <<store, req, now, tokens, verified, logins>>

\* tokens a client may present without having been issued them: a string
\* that is no JWT, a token signed with another key, and a token signed with
\* the server's key whose payload has no subject
MalformedToken == [malformed |-> TRUE]

ForgedTokens ==
    { [payload |-> [sub |-> subject, exp |-> Seconds(MaxTime) + 1], sig |-> "another-key"] :
          subject \in Subjects }

SubjectlessTokens ==
    { [payload |-> [exp |-> Seconds(MaxTime) + 1], sig |-> SECRET_KEY],
      [payload |-> [exp |-> 0], sig |-> SECRET_KEY] }

PresentedTokens == {MalformedToken} \cup ForgedTokens \cup SubjectlessTokens

\* verify_token on a token the client brings along
VerifyPresented(token) ==
    /\ obs' = [op |-> "verify_token", token |-> token, at |-> now,
               result |-> verify_token(token, now)]
    /\ UNCHANGED <<store, req, now, tokens, verified, logins>>

Init ==
    /\ store = << >>
    /\ req = [r \in Requests |-> IdleReq]
    /\ now = 0
    /\ tokens = << >>
    /\ verified = NoVerify
    /\ logins = NoLogins
    /\ obs = NoObs

(***************************************************************************)
(* Concurrent account creation.                                            *)
(***************************************************************************)
Next ==
    \/ \E r \in Requests, name \in RaceNames : Start(r, name, "secret1")
    \/ \E r \in Requests : ResolveStep(r)
    \/ \E r \in Requests : Insert(r)

Spec == Init /\ [][Next]_vars

(***************************************************************************)
(* Concurrent account creation under fair scheduling: the event loop        *)
(* resumes every coroutine whose awaited store call has returned.          *)
(***************************************************************************)
FairRequests == 1..NumFairReq

NextFair ==
    \/ \E r \in FairRequests, name \in RaceNames : Start(r, name, "secret1")
    \/ \E r \in FairRequests : ResolveStep(r)
    \/ \E r \in FairRequests : Insert(r)

FairSpec ==
    /\ Init
    /\ [][NextFair]_vars
    /\ \A r \in FairRequests : WF_vars(ResolveStep(r) \/ Insert(r))

(***************************************************************************)
(* Account creation one request at a time, while the clock advances.       *)
(***************************************************************************)
NextSeq ==
    \/ \E r \in Requests, name \in Names : StartSeq(r, name, "secret1")
    \/ \E r \in Requests : ResolveStep(r)
    \/ \E r \in Requests : Insert(r)
    \/ Tick

SpecSeq == Init /\ [][NextSeq]_vars

(***************************************************************************)
(* Account creation one request at a time, and logins.                     *)
(***************************************************************************)
AuthRequests == 1..NumAuthReq

NextAuth ==
    \/ \E r \in AuthRequests, name \in RaceNames, password \in Passwords :
           StartSeq(r, name, password)
    \/ \E r \in AuthRequests : ResolveStep(r)
    \/ \E r \in AuthRequests : Insert(r)
    \/ \E username \in LoginUsernames, password \in Passwords : Login(username, password)

SpecAuth == Init /\ [][NextAuth]_vars

(***************************************************************************)
(* Token lifecycle.                                                        *)
(***************************************************************************)
NextToken ==
    \/ \E subject \in Subjects, ttl \in TTLs : Issue(subject, ttl)
    \/ \E i \in 1..MaxTokens : Verify(i)
    \/ Tick

SpecToken == Init /\ [][NextToken]_vars

(***************************************************************************)
(* Tokens with additional claims.                                          *)
(***************************************************************************)
NextClaims ==
    \/ \E subject \in Subjects, claims \in ClaimMaps, ttl \in ClaimTTLs :
           IssueWithClaims(subject, claims, ttl)
    \/ \E i \in 1..MaxTokens : Verify(i)
    \/ Tick

SpecClaims == Init /\ [][NextClaims]_vars

(***************************************************************************)
(* Every operation of the core against one store: creation, logins, list,  *)
(* find, token issue and verification.                                     *)
(***************************************************************************)
AllRequests == 1..NumAllReq

NextAll ==
    \/ \E r \in AllRequests, name \in RaceNames : StartSeq(r, name, "secret1")
    \/ \E r \in AllRequests : ResolveStep(r)
    \/ \E r \in AllRequests : Insert(r)
    \/ \E username \in Subjects, password \in Passwords : Login(username, password)
    \/ ListUsers
    \/ \E username \in Subjects : FindUser(username)
    \/ \E subject \in Subjects : Issue(subject, ACCESS_TOKEN_EXPIRE_MINUTES * MinuteTicks)
    \/ \E i \in 1..MaxTokens : Verify(i)

SpecAll == Init /\ [][NextAll]_vars

(***************************************************************************)
(* The resolver alone, against a repository that answers as it likes.      *)
(***************************************************************************)
NextResolve ==
    \/ /\ obs = NoObs
       /\ \E base_username \in Subjects : ResolveBegin(base_username)
    \/ \E exists \in BOOLEAN : ResolveProbe(exists)
    \/ Tick

SpecResolve == Init /\ [][NextResolve]_vars

\* every awaited existence check is eventually answered
FairSpecResolve ==
    SpecResolve /\ WF_vars(\E exists \in BOOLEAN : ResolveProbe(exists))

(***************************************************************************)
(* Validity checks of issued and of foreign tokens.                        *)
(***************************************************************************)
NextValid ==
    \/ \E subject \in Subjects, ttl \in ClaimTTLs : Issue(subject, ttl)
    \/ \E i \in 1..MaxTokens, utc_offset \in UtcOffsets : CheckValid(i, utc_offset)
    \/ \E token \in PresentedTokens \cup ExpirylessTokens, utc_offset \in UtcOffsets :
           CheckValidPresented(token, utc_offset)
    \/ Tick

SpecValid == Init /\ [][NextValid]_vars

(***************************************************************************)
(* Concurrent creation while the clock advances.                           *)
(***************************************************************************)
NextTimed ==
    \/ \E r \in FairRequests, name \in RaceNames : Start(r, name, "secret1")
    \/ \E r \in FairRequests : ResolveStep(r)
    \/ \E r \in FairRequests : Insert(r)
    \/ Tick

SpecTimed == Init /\ [][NextTimed]_vars

(***************************************************************************)
(* Creation against a store whose inserts may fail.                        *)
(***************************************************************************)
NextFault ==
    \/ \E r \in AuthRequests, name \in RaceNames : StartSeq(r, name, "secret1")
    \/ \E r \in AuthRequests : ResolveStep(r)
    \/ \E r \in AuthRequests : Insert(r)
    \/ \E r \in AuthRequests, fault \in Faults : InsertFault(r, fault)

SpecFault == Init /\ [][NextFault]_vars

(***************************************************************************)
(* The normalizer alone: each behaviour calls it with one pair of names,    *)
(* every pair of names up to MaxNameLen occurs in some behaviour.           *)
(***************************************************************************)
NextName ==
    \/ /\ obs = NoObs
       /\ \E first_name \in NameInputs, last_name \in NameInputs :
              Derive(first_name, last_name)
    \/ DeriveAgain
    \/ Tick

SpecName == Init /\ [][NextName]_vars

(***************************************************************************)
(* All operations on accounts: creation one request at a time, logins,     *)
(* the list path and find-by-username.                                     *)
(***************************************************************************)
NextOps ==
    \/ \E r \in AuthRequests, name \in RaceNames : StartSeq(r, name, "secret1")
    \/ \E r \in AuthRequests : ResolveStep(r)
    \/ \E r \in AuthRequests : Insert(r)
    \/ \E username \in LoginUsernames, password \in Passwords : Login(username, password)
    \/ ListUsers
    \/ \E username \in LoginUsernames : FindUser(username)

SpecOps == Init /\ [][NextOps]_vars

(***************************************************************************)
(* Token verification of issued and of foreign tokens.                     *)
(***************************************************************************)
NextVerify ==
    \/ \E subject \in Subjects, ttl \in TTLs : Issue(subject, ttl)
    \/ \E i \in 1..MaxTokens : Verify(i)
    \/ \E token \in PresentedTokens : VerifyPresented(token)
    \/ Tick

SpecVerify == Init /\ [][NextVerify]_vars

(***************************************************************************)
(* Properties.                                                             *)
(***************************************************************************)
Finished(r) == req[r].pc \in {"done", "failed"}
InFlight(r) == req[r].pc \in {"resolve", "insert"}
SameName(q, r) ==
    /\ req[q].first_name = req[r].first_name
    /\ req[q].last_name = req[r].last_name

\* C1: in every reachable state of the concurrent creators, over a store
\* whose insert rejects a username already present, no two persisted
\* accounts have the same username.
C1_UsernamesDistinct ==
    \A i, j \in 1..Len(store) :
        i # j => store[i].username # store[j].username

\* two accounts are persisted and some request lost a race for a username
C1_Witness ==
    /\ Len(store) >= 2
    /\ \E r \in Requests : req[r].pc = "failed" \/ req[r].attempt > 0

\* C2: when exactly two requests with identical names have run against the
\* initially empty store and both have finished, both returned an account
\* and the two usernames differ.
C2_BothSucceed ==
    ( /\ Finished(1) /\ Finished(2)
      /\ SameName(1, 2)
      /\ \A r \in Requests \ {1, 2} : req[r].pc = "idle" )
    => /\ req[1].pc = "done"
       /\ req[2].pc = "done"
       /\ req[1].result.value.username # req[2].result.value.username

\* C3: a request ends in an error over a duplicate-username conflict only
\* after 3 of its insert attempts have failed (every earlier conflict is
\* answered by re-resolving and retrying).
C3_ConflictAfterThreeAttempts ==
    \A r \in Requests : req[r].pc = "failed" => req[r].inserts = 3

\* the requests 1..r all carry the name of request 1, so that request r is
\* the (r-1)-th of a run of creations with identical names
IdenticalRun(r) == \A q \in 1..r : SameName(1, q)

\* base followed by the decimal number k, or base itself when k = 0
Numbered(base, k) == IF k = 0 THEN base ELSE base \o ToStr(k)

C5_BoundedAttempts ==
    \A r \in Requests : req[r].inserts <= 3 /\ req[r].resolves <= 3

\* a request has made 3 insert attempts and 3 resolutions
C5_Witness ==
    \E r \in Requests : req[r].inserts = 3 /\ req[r].resolves = 3

\* "Error creating user: Failed to create unique username after 3 attempts"
S_ExhaustedAfter3 == S_ErrorCreating \o S_FailedUnique \o <<"3">> \o S_Attempts

\* the accounts request r has persisted (its hash carries its salt)
PersistedBy(r) == {i \in 1..Len(store) : store[i].password.salt = r}

\* C6: a request whose 3 insert attempts all failed on a duplicate username
\* has failed with an error naming the 3 attempts, and none of the persisted
\* accounts is its own.
C6_ExhaustedError ==
    \A r \in Requests :
        (req[r].pc = "failed" /\ req[r].inserts = 3)
        => /\ req[r].result.ok = FALSE
           /\ req[r].result.error = S_ExhaustedAfter3
           /\ PersistedBy(r) = {}

\* a request has lost three races in a row
C6_Witness ==
    \E r \in Requests :
        req[r].pc = "failed" /\ req[r].inserts = 3 /\ req[r].attempt = 2

\* C7: under fair scheduling every request that has started eventually
\* finishes, with an account or with an error, whatever the other requests
\* do.
C7_EveryRequestFinishes ==
    \A r \in FairRequests : InFlight(r) ~> Finished(r)

\* a request has finished after losing a race and resolving again
C7_Witness ==
    \E r \in Requests : Finished(r) /\ req[r].resolves >= 2 /\ req[r].counter >= 2

\* C8: a login rejected for an unknown username and a login rejected for a
\* known username with a wrong secret got the same answer: None from
\* authenticate_user, 401 "Invalid username or password" from the endpoint.
C8_SameRejection ==
    /\ logins.unknown # None
       => /\ logins.unknown.service = None
          /\ logins.unknown.response = [status |-> 401, detail |-> S_InvalidLogin]
    /\ logins.wrong # None
       => /\ logins.wrong.service = None
          /\ logins.wrong.response = [status |-> 401, detail |-> S_InvalidLogin]
    /\ (logins.unknown # None /\ logins.wrong # None)
       => /\ logins.unknown.service = logins.wrong.service
          /\ logins.unknown.response = logins.wrong.response

\* both kinds of rejected login have been observed
C8_Witness ==
    /\ logins.unknown # None
    /\ logins.wrong # None
    /\ \E i \in 1..Len(store) :
           /\ store[i].username = logins.wrong.username
           /\ store[i].password.plain # logins.wrong.password

\* C9: once a request has returned an account, authenticating with its
\* username and its secret returns that account in every later state; and a
\* login is accepted only with a secret that verifies against the hash
\* stored for the username.
C9_AuthenticateAfterCreate ==
    /\ \A r \in Requests :
           req[r].pc = "done"
           => authenticate_user(store, req[r].result.value.username,
                                req[r].password) = req[r].result.value
    /\ logins.ok # None
       => \E i \in 1..Len(store) :
              /\ store[i].username = logins.ok.username
              /\ store[i].password.plain = logins.ok.password
              /\ logins.ok.service = UserResponse(store[i])

\* the second account of a name has logged in with its own secret while the
\* first account of that name has another secret
C9_Witness ==
    /\ logins.ok # None
    /\ \E q, r \in Requests :
           /\ q < r
           /\ req[q].pc = "done" /\ req[r].pc = "done"
           /\ SameName(q, r)
           /\ req[q].password # req[r].password
           /\ logins.ok.username = req[r].result.value.username
           /\ logins.ok.service = req[r].result.value

\* C10: a token issued for a subject with lifetime ttl verifies to that
\* subject at every instant before issued_at + ttl, and to no identity at
\* every instant from issued_at + ttl on.
C10_ValidUntilExpiry ==
    verified.token # 0
    => LET e == tokens[verified.token]
       IN  IF verified.at < e.issued_at + e.ttl
           THEN verified.result = Some(e.subject)
           ELSE verified.result = None

\* the token is no JWT, is signed with a foreign key, or has no subject
Unacceptable(token) ==
    \/ "sig" \notin DOMAIN token
    \/ token.sig # SECRET_KEY
    \/ "sub" \notin DOMAIN token.payload

\* the part of C11 about malformed, wrongly signed and subject-less tokens
FailsClosedOnForeignTokens ==
    (obs.op = "verify_token" /\ Unacceptable(obs.token)) => obs.result = None

\* C11: verify_token returns None for every token that is malformed,
\* wrongly signed, without a subject, or expired (its issued_at + ttl is
\* not later than the instant of the call).
C11_FailsClosed ==
    /\ FailsClosedOnForeignTokens
    /\ verified.token # 0
       => LET e == tokens[verified.token]
          IN  verified.at >= e.issued_at + e.ttl => verified.result = None

\* the response v carries no password field and none of its optional fields
\* carries a stored secret hash
HidesSecret(v) ==
    /\ "password" \notin DOMAIN v
    /\ \A i \in 1..Len(store) :
           v.id # store[i].password /\ v.email # store[i].password

\* C12: no value returned by create_user, authenticate_user, the login
\* endpoints, get_all_users or get_user_by_username contains a secret hash.
C12_NoSecretReturned ==
    /\ \A r \in Requests : req[r].pc = "done" => HidesSecret(req[r].result.value)
    /\ logins.ok # None
       => /\ HidesSecret(logins.ok.service)
          /\ HidesSecret(logins.ok.response.user)
          /\ DOMAIN logins.ok.response.access_token.payload = {"sub", "exp"}
    /\ obs.op = "get_all_users"
       => \A i \in 1..Len(obs.result) : HidesSecret(obs.result[i])
    /\ (obs.op = "get_user_by_username" /\ obs.result # None)
       => HidesSecret(obs.result)

\* two accounts exist, one has logged in, and the list path has shown both
C12_Witness ==
    /\ logins.ok # None
    /\ obs.op = "get_all_users"
    /\ Len(obs.result) >= 2
    /\ \E r \in Requests : req[r].pc = "done"

\* a request whose first fault was an unreachable store made one insert call
\* and failed with an error wrapping the cause, persisting nothing
UnreachableNotRetried ==
    \A r \in Requests :
        req[r].faulted = "unreachable"
        => /\ req[r].pc = "failed"
           /\ req[r].inserts = 1
           /\ req[r].result.error = S_ErrorCreating \o FaultMessage("unreachable")
           /\ PersistedBy(r) = {}

\* C13: a request whose insert failed for a reason other than a duplicate
\* username called insert exactly once, failed with an error wrapping the
\* cause, and persisted nothing.
C13_NoRetryOnOtherFailure ==
    \A r \in Requests :
        req[r].faulted # "none"
        => /\ req[r].pc = "failed"
           /\ req[r].inserts = 1
           /\ req[r].result.error = S_ErrorCreating \o FaultMessage(req[r].faulted)
           /\ PersistedBy(r) = {}

\* s is non-empty and made of lowercase letters a-z only
IsSegment(s) == s # << >> /\ \A i \in 1..Len(s) : s[i] \in LowerLetters

\* s is "user" followed by one or more decimal digits
IsFallback(s) ==
    /\ Len(s) > Len(S_user)
    /\ SubSeq(s, 1, Len(S_user)) = S_user
    /\ \A i \in (Len(S_user) + 1)..Len(s) : s[i] \in {Digit(d) : d \in 0..9}

\* s is two segments joined by exactly one "."
IsTwoSegments(s) ==
    \E i \in 1..Len(s) :
        /\ s[i] = "."
        /\ IsSegment(SubSeq(s, 1, i - 1))
        /\ IsSegment(SubSeq(s, i + 1, Len(s)))

\* C14: every result of _generate_username is two non-empty segments of
\* lowercase letters joined by exactly one ".", or "user" followed by digits.
C14_CandidateShape ==
    obs.op = "generate_username"
    => \A i \in 1..Len(obs.calls) :
           IsTwoSegments(obs.calls[i].result) \/ IsFallback(obs.calls[i].result)

\* both shapes have been produced: here the fallback for a name of digits
\* and whitespace only
C14_Witness ==
    /\ obs.op = "generate_username"
    /\ obs.first_name = <<"1", " ">>
    /\ IsFallback(obs.calls[1].result)

\* the letter an accented character is written on
Unaccented(c) ==
    CASE c = "E_ACUTE" -> "E"
      [] c = "e_acute" -> "e"
      [] c = "i_acute" -> "i"
      [] c = "n_tilde" -> "n"
      [] OTHER -> c

\* clean, character by character: strip the accent, lowercase, keep a-z only
RECURSIVE clean(_)
clean(s) ==
    IF s = << >>
    THEN << >>
    ELSE LET c == LowerChar(Unaccented(Head(s)))
         IN  (IF c \in LowerLetters THEN << c >> ELSE << >>) \o clean(Tail(s))

JoinCleanWords(s) == FlattenSeq([i \in 1..Len(Split(s)) |-> clean(Split(s)[i])])

\* the last name is a compound surname whose first word cleans to letters
CompoundSurname ==
    /\ obs.op = "generate_username"
    /\ Len(Split(obs.last_name)) > 1
    /\ clean(obs.first_name) # << >>
    /\ clean(Split(obs.last_name)[1]) # << >>

EmptySegment ==
    /\ obs.op = "generate_username"
    /\ (clean(obs.first_name) = << >> \/ clean(obs.last_name) = << >>)

\* C17: when a cleaned segment is empty, _generate_username returns "user"
\* followed by the Unix time of the call in whole seconds, and two such calls
\* made at least one second apart return different strings.
C17_FallbackFromClock ==
    EmptySegment
    => /\ \A i \in 1..Len(obs.calls) :
              obs.calls[i].result = S_user \o ToStr(obs.calls[i].at \div TicksPerSecond)
       /\ (Len(obs.calls) = 2 /\ obs.calls[2].at - obs.calls[1].at >= TicksPerSecond)
          => obs.calls[2].result # obs.calls[1].result

\* a first name of one digit, derived twice at least one second apart
C17_Witness ==
    /\ EmptySegment
    /\ obs.first_name = <<"1">>
    /\ Len(obs.calls) = 2
    /\ obs.calls[2].at - obs.calls[1].at >= TicksPerSecond
    /\ IsFallback(obs.calls[2].result)

\* the accounts for which a wrong secret has been rejected still
\* authenticate with their own secret
StillAuthenticates ==
    logins.wrong # None
    => \A i \in 1..Len(store) :
           store[i].username = logins.wrong.username
           => authenticate_user(store, store[i].username, store[i].password.plain)
                  = UserResponse(store[i])

\* C18: a login attempt, accepted or rejected, leaves the store as it is,
\* and after rejected attempts for a username the correct secret for that
\* username still returns the account.
C18_NoLockout ==
    /\ [](StillAuthenticates
          /\ (logins.ok # None /\ logins.ok.rejected_before
              => logins.ok.service # None))
    /\ [][logins' # logins => store' = store]_vars

\* a login was accepted for a username after a wrong secret had been
\* rejected for it
C18_Witness ==
    /\ logins.ok # None
    /\ logins.ok.rejected_before
    /\ logins.ok.response.status = 200

\* the additional claims of issued token e are in its payload, and its
\* subject and expiry are the ones it was issued with
CarriesClaims(e) ==
    /\ \A k \in DOMAIN e.claims \ {"sub", "exp"} :
           k \in DOMAIN e.token.payload /\ e.token.payload[k] = e.claims[k]
    /\ e.token.payload.sub = e.subject
    /\ e.token.payload.exp * TicksPerSecond = e.issued_at + e.ttl

\* the additional claims are carried whatever else holds
ExtraClaimsCarried ==
    \A i \in 1..Len(tokens) :
        \A k \in DOMAIN tokens[i].claims \ {"sub", "exp"} :
            tokens[i].token.payload[k] = tokens[i].claims[k]

\* C19: a token issued by create_access_token_with_claims for a username
\* with additional claims and lifetime ttl carries the claims, has the
\* username as subject and issue time + ttl as expiry, and verifies to the
\* username.
C19_ClaimsKeepSubjectAndExpiry ==
    /\ \A i \in 1..Len(tokens) : CarriesClaims(tokens[i])
    /\ (verified.token # 0 /\ verified.result # None)
       => verified.result = Some(tokens[verified.token].subject)

\* C20: every step of every operation leaves each persisted account in the
\* store, at its place, with the same identifier, username, secret hash and
\* timestamps.
C20_AccountsImmutable ==
    [][\A i \in 1..Len(store) :
           /\ i <= Len(store')
           /\ store'[i].id = store[i].id
           /\ store'[i].username = store[i].username
           /\ store'[i].password = store[i].password
           /\ store'[i].created_at = store[i].created_at
           /\ store'[i].updated_at = store[i].updated_at]_vars

\* two accounts are persisted and a login, a list or find, and a token
\* verification have taken place
C20_Witness ==
    /\ Len(store) >= 2
    /\ logins.ok # None
    /\ logins.wrong # None
    /\ obs.op \in {"get_all_users", "get_user_by_username"}
    /\ verified.token # 0

\* the k-th candidate of tier 1: base, base1, base2, ...
Tier1Candidate(base_username, k) ==
    IF k = 0 THEN base_username ELSE base_username \o ToStr(k)

\* C22: the resolver asks for base, base1, ..., base999 in that order, and a
\* tier-1 name it returns is the one it asked for last, was answered false,
\* and every candidate before it was answered true.
C22_FirstFreeInOrder ==
    obs.op = "get_unique_username"
    => /\ obs.checks > 0 => obs.last_checked = Tier1Candidate(obs.base, obs.checks - 1)
       /\ ~obs.done => /\ obs.positive = obs.checks
                       /\ obs.username = Tier1Candidate(obs.base, obs.checks)
       /\ (obs.done /\ obs.positive < obs.checks)
          => /\ obs.username = obs.last_checked
             /\ obs.positive = obs.checks - 1
             /\ obs.checks <= TierLimit + 1
       /\ (obs.done /\ obs.checks <= TierLimit) => obs.positive < obs.checks

\* base..base41 were answered true and base42 false: base42 is returned
C22_Witness ==
    /\ obs.op = "get_unique_username"
    /\ obs.done
    /\ obs.positive = 42
    /\ obs.checks = 43
    /\ obs.username = obs.base \o <<"4", "2">>

\* the tier-2 name built at instant t: base + "." + hash6
Tier2Name(base_username, t) ==
    base_username \o <<".">> \o Md5Prefix(base_username \o ToStr(Seconds(t)), 6)

\* base, base1, ..., base999 were all answered "exists"
AllTier1Occupied ==
    /\ obs.op = "get_unique_username"
    /\ obs.positive >= TierLimit + 1

\* C21: once base, base1, ..., base999 are all occupied the resolver asks
\* whether base + "." + hash6 exists, returns that name if it is free, and
\* returns the tier-3 name only if it is occupied too.
C21_Tier2NameChecked ==
    AllTier1Occupied
    => \E t \in 0..MaxTime :
           IF obs.done
           THEN /\ obs.last_checked = Tier2Name(obs.base, t)
                /\ obs.positive < obs.checks => obs.username = Tier2Name(obs.base, t)
           ELSE obs.username = Tier2Name(obs.base, t)

\* the tier-3 name built at instant t with the counter at n
Tier3Name(base_username, t, n) ==
    S_userdot \o Md5Prefix(base_username \o ToStr(Seconds(t)) \o ToStr(n), 8)

\* at most 1000 checks; a counter above 1000 ends the loop with the tier-3
\* name, for which the repository was not asked
BoundedChecks ==
    obs.op = "get_unique_username"
    => /\ obs.checks <= HardLimit
       /\ obs.counter > HardLimit
          => /\ obs.done
             /\ \E t \in 0..MaxTime :
                    obs.username = Tier3Name(obs.base, t, HardLimit + 1)
             /\ obs.last_checked # obs.username

\* C23: whatever the repository answers, the resolver returns, after at most
\* 1000 existence checks, and once its counter exceeds 1000 it returns
\* "user." + hash8 without asking whether that name exists.
C23_ResolverTerminates ==
    /\ []BoundedChecks
    /\ (obs.op = "get_unique_username") ~> (obs.op = "get_unique_username" /\ obs.done)

\* the repository answered true 1000 times and the tier-3 name was returned
C23_Witness ==
    /\ obs.op = "get_unique_username"
    /\ obs.done
    /\ obs.positive = HardLimit
    /\ obs.checks = HardLimit
    /\ obs.counter = HardLimit + 1

\* a step of some request's resolver: the request was about to make an
\* existence check and has made it
ResolverStepOf(r) ==
    /\ req[r].pc \in {"idle", "resolve"}
    /\ req'[r] # req[r]

\* C24: no step of the resolver changes the store; it only asks whether
\* names exist.
C24_ResolverLeavesStore ==
    [][(\E r \in Requests : ResolverStepOf(r)) => store' = store]_vars

\* a resolver went past its base, against a store that holds accounts, and
\* returned a numbered name
C24_Witness ==
    \E r \in Requests :
        /\ req[r].pc = "insert"
        /\ req[r].counter > 1
        /\ req[r].username # req[r].base
        /\ Len(store) >= 1

\* the resolver state of every request is the candidate its own counter
\* names for its own base
OwnCandidate ==
    \A r \in Requests :
        req[r].pc \in {"resolve", "insert"}
        => req[r].username = Tier1Candidate(req[r].base, req[r].counter - 1)

\* request r starts a new invocation of the resolver after a conflict
ReResolution(r) ==
    /\ req[r].pc = "insert"
    /\ req'[r].resolves = req[r].resolves + 1

\* C25: every invocation of the resolver, a re-resolution after a conflict
\* included, starts at base with counter 1; the name a resolver holds is
\* determined by its own base and counter, and a step of one request leaves
\* the resolver state of every other request untouched.
C25_CounterIsLocal ==
    /\ []OwnCandidate
    /\ [][\A r \in Requests :
              /\ ReResolution(r)
                 => /\ req'[r].pc = "resolve"
                    /\ req'[r].username = req[r].base
                    /\ req'[r].counter = 1
              /\ req'[r] # req[r]
                 => \A q \in Requests \ {r} : req'[q] = req[q]]_vars

\* a request re-resolves after a conflict, having reached a numbered name
\* before, while another request is inside its own resolver
C25_Witness ==
    \E r, q \in Requests :
        /\ r # q
        /\ req[r].pc = "resolve"
        /\ req[r].attempt >= 1
        /\ req[r].counter = 1
        /\ req[q].pc = "resolve"
        /\ req[q].counter > 1

\* the token is correctly signed, carries an expiry claim, and the expiry
\* is later than instant t
SignedAndUnexpired(token, t) ==
    /\ "sig" \in DOMAIN token
    /\ token.sig = SECRET_KEY
    /\ "exp" \in DOMAIN token.payload
    /\ token.payload.exp * TicksPerSecond > t

\* on a host that keeps UTC the answer is exactly SignedAndUnexpired
ValidExactlyOnUtcHost ==
    (obs.op = "is_token_valid" /\ obs.utc_offset = 0)
    => obs.result = SignedAndUnexpired(obs.token, obs.at)

\* malformed, wrongly signed and expiry-less tokens are never valid
ForeignNeverValid ==
    (obs.op = "is_token_valid"
        /\ obs.token \in {MalformedToken} \cup ForgedTokens \cup ExpirylessTokens)
    => ~obs.result

\* C26: is_token_valid answers true exactly when the token is correctly
\* signed, carries an expiry claim and the expiry is later than the current
\* time.
C26_ValidExactlyWhenUnexpired ==
    obs.op = "is_token_valid"
    => obs.result = SignedAndUnexpired(obs.token, obs.at)

\* C27: a request has persisted at most one account, has persisted one
\* exactly when it returned successfully, returned the username of that
\* account, and has persisted none when it ended in an error.
C27_OneAccountPerSuccess ==
    \A r \in Requests :
        /\ Cardinality(PersistedBy(r)) <= 1
        /\ req[r].pc = "done" <=> PersistedBy(r) # {}
        /\ req[r].pc = "done"
           => \A i \in PersistedBy(r) :
                  /\ req[r].result.ok
                  /\ store[i].username = req[r].result.value.username
                  /\ store[i].id = req[r].result.value.id
        /\ req[r].pc = "failed" => ~req[r].result.ok /\ PersistedBy(r) = {}

\* one request returned an account after a retry and another ended in an
\* error
C27_Witness ==
    \E r, q \in Requests :
        /\ req[r].pc = "done"
        /\ req[r].inserts >= 2
        /\ req[q].pc = "failed"

\* the insert attempt of request r in this step met a duplicate username
ConflictAtInsert(r) ==
    /\ req[r].pc = "insert"
    /\ req'[r].inserts = req[r].inserts + 1
    /\ req'[r].pc # "done"

\* C28: an insert of a name the resolver checked meets a duplicate username
\* only if an account with that name was inserted after the resolver's last
\* check; when no insert landed in between, the attempt succeeds.
C28_ConflictOnlyByRace ==
    [][\A r \in Requests :
           ConflictAtInsert(r)
           => \/ req[r].counter > HardLimit
              \/ \E i \in (req[r].seen + 1)..Len(store) :
                     /\ store[i].username = req[r].username
                     /\ store[i].password.salt # r]_vars

\* a request lost a race, and another request inserted right after its check
\* with nothing landing in between
C28_Witness ==
    \E r, q \in Requests :
        /\ req[r].pc \in {"resolve", "failed"}
        /\ req[r].inserts >= 1
        /\ req[q].pc = "done"
        /\ req[q].inserts = 1
        /\ req[q].seen + 1 = req[q].result.value.id.value

\* C29: from the moment a request has built its draft account, no step
\* changes the draft's first name, last name, secret hash, email or
\* timestamps; a retry replaces the username only.
C29_RetryChangesUsernameOnly ==
    [][\A r \in Requests :
           (req[r].user # None /\ req'[r].user # None)
           => /\ req'[r].user.first_name = req[r].user.first_name
              /\ req'[r].user.last_name = req[r].user.last_name
              /\ req'[r].user.password = req[r].user.password
              /\ req'[r].user.email = req[r].user.email
              /\ req'[r].user.created_at = req[r].user.created_at
              /\ req'[r].user.updated_at = req[r].user.updated_at]_vars

\* a request is about to insert again, under another username than the one
\* it tried first and later than it built its draft
C29_Witness ==
    \E r \in Requests :
        /\ req[r].pc = "insert"
        /\ req[r].attempt >= 1
        /\ req[r].user.username # req[r].base
        /\ req[r].user.password = get_password_hash(req[r].password, r)
        /\ req[r].user.created_at < now

\* C30: the subject of the token issued by an accepted login is the username
\* of a persisted account, in the state of issuance and in every later
\* state: the token verifies to it and looking the account up finds it.
C30_SubjectIsPersisted ==
    logins.ok # None
    => LET token   == logins.ok.response.access_token
           subject == token.payload.sub
       IN  /\ subject = logins.ok.response.user.username
           /\ username_exists(store, subject)
           /\ verify_token(token, now) = Some(subject)
           /\ svc_get_user_by_username(store, subject) # None
           /\ svc_get_user_by_username(store, subject).username = subject

\* a login was accepted for the first account, and more accounts have been
\* persisted
C30_Witness ==
    /\ logins.ok # None
    /\ Len(store) >= 3
    /\ logins.ok.response.access_token.payload.sub = store[1].username

====
